---- MODULE Spec2Model ----
(***************************************************************************)
(* A model of gotail's rotation-aware polling watcher (pollWatcher in      *)
(* poll_rotater.go), the FileState helper it uses (file_state.go), the     *)
(* file system it polls, a rotating writer and the single consumer that    *)
(* calls Wait() and reads from the returned handle.                        *)
(*                                                                         *)
(* A byte of a file is identified by <<inode, offset>>; a file is therefore*)
(* described by its size alone.  Files only grow (truncation is outside    *)
(* the watcher's contract).                                                *)
(***************************************************************************)
EXTENDS Integers, Sequences, FiniteSets, TLC

\* ---------------------------------------------------------------- bounds
MaxFiles  == 2    \* files ever created at the path (inodes 1..MaxFiles)
MaxSize   == 2    \* bytes ever appended to one file
MaxFaults == 1    \* injected I/O failures (errors other than not-found)
MaxCloses == 2    \* calls of Close()

Inodes == 1..MaxFiles

\* io.SeekStart, io.SeekCurrent, io.SeekEnd
SeekStart   == 0
SeekCurrent == 1
SeekEnd     == 2
Whences == {SeekStart, SeekCurrent, SeekEnd}

\* error values: nil, an error for which os.IsNotExist holds, any other I/O
\* error, and the error os.File.Close returns for a file already closed
ErrNil       == "nil"
ErrNotExist  == "ENOENT"
ErrIO        == "EIO"
ErrClosed    == "ErrClosed"

VARIABLES
    \* the file system
    files,       \* files[i]: size of inode i (0 until created and written)
    created,     \* inodes 1..created exist
    pathIno,     \* inode the configured path names, 0 when the path is absent
    handles,     \* every *os.File the watcher opened and kept: [ino, off, open]
    faults,      \* I/O failures (other than not-found) still to be injected
    \* pollWatcher
    f,           \* p.f: index into handles, 0 for nil
    Whence,      \* p.c.Whence
    StartState,  \* p.c.StartState: [nil, Inode, Position]
    closed,      \* p.closed
    cancel,      \* p.cancel has been closed
    mu,          \* p.mu: "free", or "wait" while the goroutine in Wait() holds it
    \* the goroutine inside Wait()
    pc,          \* "idle" | "sleep" | "open" | "newstate" | "fstat" | "pathstat"
    s,           \* the named result s (WaitStatus) of the running call
    fl,          \* the local f of the S0 branch (handle just opened), 0 otherwise
    ret,         \* what the last Wait() returned
    \* the callers of Close()
    closeRets,   \* the errors the calls of Close() returned, in order
    \* the consumer
    delivered,   \* bytes the consumer has read, in order: <<inode, offset>>
    \* history
    hist,        \* facts about the run the claims refer to: the configuration
                 \* the watcher was built with, whether an open found the
                 \* path absent before the first file was opened, and the
                 \* history of the running call of Wait()
    \* the applications built on the poll loop
    text,        \* what the writer writes: byte k of a file is text[k]
    lr,          \* the LineReader wrapping the watcher (when there is one)
    po,          \* the Poller (tail.go), which polls on its own
    sk,          \* a direct call of FileState.SeekIfMatches and its result
    other        \* a second goroutine calling Wait(): its pc, s, fl and ret

\* the state of the applications, which the watcher alone never touches
appVars == <<text, lr, po, sk, other>>

vars == <<files, created, pathIno, handles, faults, f, Whence, StartState,
          closed, cancel, mu, pc, s, fl, ret, closeRets, delivered, hist,
          appVars>>

fsVars      == <<files, created, pathIno>>
watcherVars == <<f, Whence, StartState, closed, cancel>>
waitVars    == <<mu, pc, s, fl, ret>>

\* ------------------------------------------------------------ FileState
\* FileState{} (the zero value)
ZeroState == [Size |-> 0, Position |-> 0, Inode |-> 0]

\* WaitStatus{} (the zero value)
ZeroStatus == [State |-> ZeroState, File |-> 0, ReOpened |-> FALSE]

NilStartState == [nil |-> TRUE, Inode |-> 0, Position |-> 0]

\* NewFileState(f): inode and size from fstat, position from Seek(0, SeekCurrent)
NewFileState(h, fs) ==
    [Size |-> fs[h.ino], Position |-> h.off, Inode |-> h.ino]

\* Seek with io.SeekEnd taken for io.SeekStart
SeekEndAsStart(h, fs, offset, whence) ==
    CASE whence = SeekStart   -> offset
      [] whence = SeekCurrent -> h.off + offset
      [] whence = SeekEnd     -> offset

\* (*os.File).Seek(offset, whence): the new offset
Seek(h, fs, offset, whence) ==
    CASE whence = SeekStart   -> offset
      [] whence = SeekCurrent -> h.off + offset
      [] whence = SeekEnd     -> fs[h.ino] + offset

\* SeekIfMatches without its guard against a position beyond the size
SeekMatchesInodeOnly(ss, new) ==
    ss.Inode = new.Inode

\* SeekIfMatches declining a position equal to the size
SeekMatchesStrict(ss, new) ==
    /\ ss.Inode = new.Inode
    /\ ss.Position < new.Size

\* FileState.SeekIfMatches: whether the state matches the file
SeekMatches(ss, new) ==
    /\ ss.Inode = new.Inode
    /\ ~(ss.Position > new.Size)

\* FileState.SeekIfMatches when no call fails: the offset of the handle
\* afterwards and the FileState returned
SeekIfMatches(ss, h, fs) ==
    LET newState == NewFileState(h, fs) IN
    IF SeekMatches(ss, newState)
        THEN LET pos == Seek(h, fs, ss.Position, SeekStart) IN
             [matches |-> TRUE, off |-> pos,
              fs |-> [newState EXCEPT !.Position = pos]]
        ELSE [matches |-> FALSE, off |-> h.off, fs |-> newState]

\* ----------------------------------------------------------------- Init
\* the inodes a supplied start_state names: the first file created at the
\* path, which the watcher's first open finds or (after a rotation) does not
StartInodes == {1}

StartStates ==
    {NilStartState} \cup
    [nil : {FALSE}, Inode : StartInodes, Position : 0..MaxSize]

InitWatcher ==
    /\ files = [i \in Inodes |-> 0]
    /\ created = 0
    /\ pathIno = 0
    /\ handles = <<>>
    /\ f = 0
    /\ Whence \in Whences
    /\ StartState \in StartStates
    /\ closed = FALSE
    /\ cancel = FALSE
    /\ mu = "free"
    /\ pc = "idle"
    /\ s = ZeroStatus
    /\ fl = 0
    /\ ret = [kind |-> "none", s |-> ZeroStatus, closed |-> FALSE, err |-> ErrNil]
    /\ closeRets = <<>>
    /\ delivered = <<>>
    /\ hist = [whence0 |-> Whence, start0 |-> StartState, sawNotFound |-> FALSE,
               calledClosed |-> FALSE, touched |-> FALSE, waited |-> FALSE]

\* ----------------------------------------------------------- LineReader
\* the bytes of a file: '\n', '\r' and any other byte
LF == "LF"
CR == "CR"
Chars == {"a", CR, LF}

\* io.EOF, and the error a user's ErrorHandler returns to stop the reader
ErrEOF     == "EOF"
ErrHandler == "handler"

\* the texts the writer may write; every file holds a prefix of the text
Texts     == [1..MaxSize -> Chars]
PlainText == [k \in 1..MaxSize |-> "a"]

\* the bytes of the text at offsets a .. b-1
SubText(a, b) == [j \in 1..(b - a) |-> text[a + j]]

\* the ErrorHandler passed to NewLineReader: nil (replaced by
\* DiscardErrorHandler) or a handler of the user
Handlers == {"discard", "user"}

\* NewLineReader(c, h): the LineReader before its first Next().  pc is the
\* place of the goroutine in Next(); ret the result of the last Next();
\* zeroSleep whether sleepTime is still 0; buf the number of bytes the
\* bufio.Reader holds unread; closes the calls of Close() begun.  The last
\* six fields are history: the error the last read or Wait() gave, the
\* error the last read or Wait() passed to the handler (nil if none), the
\* file offset where the line being read starts, (after a restart from
\* a checkpoint) the file and offset the stopped reader had reached, and
\* whether this Next() has appended bytes to bytes it already held.
NewLineReader(stopAtEOF, handler) ==
    [pc |-> "idle", ret |-> "none", s |-> ZeroStatus, br |-> 0, buf |-> 0,
     lastBytes |-> <<>>, err |-> ErrNil, stop |-> FALSE, zeroSleep |-> TRUE,
     StopAtEOF |-> stopAtEOF, onErr |-> handler, closes |-> 0,
     lastErr |-> ErrNil, handled |-> ErrNil, lineStart |-> 0,
     restarted |-> FALSE, expect |-> [ino |-> 0, off |-> 0],
     joined |-> FALSE]

\* the error (*os.File).Seek returns for a nil *os.File (os.ErrInvalid)
ErrInvalid == "EINVAL"

\* NewPoller(c): the Poller before its first Read().  pc is the place of
\* the goroutine in Read(); lf and lclosed are Read's locals f and closed;
\* cap is len(b); ret what the last Read() returned; handled the error the
\* last step passed to c.OnError (nil if none); closes the calls of Close().
NewPoller(whence) ==
    [pc |-> "idle", f |-> 0, bytesRead |-> 0, Whence |-> whence,
     closed |-> FALSE, cancel |-> FALSE, lf |-> 0, lclosed |-> FALSE,
     cap |-> 0, ret |-> [n |-> 0, err |-> "none"], handled |-> ErrNil,
     closes |-> 0]

\* no call of SeekIfMatches other than the watcher's
NoSeekCall == [s |-> ZeroState, h0 |-> 0, kind |-> "none", fs |-> ZeroState,
               matches |-> FALSE, err |-> ErrNil]

\* a goroutine that is not inside Wait()
NotWaiting ==
    [pc |-> "idle", s |-> ZeroStatus, fl |-> 0,
     ret |-> [kind |-> "none", s |-> ZeroStatus, closed |-> FALSE, err |-> ErrNil]]

\* no LineReader and no Poller is in use, and one goroutine calls Wait()
NoApp ==
    /\ text = PlainText
    /\ lr = NewLineReader(FALSE, "discard")
    /\ po = NewPoller(SeekStart)
    /\ sk = NoSeekCall
    /\ other = NotWaiting

\* no I/O failure other than not-found occurs
Init ==
    /\ InitWatcher
    /\ NoApp
    /\ faults = 0

\* up to MaxFaults calls of open, stat or seek fail with an I/O error
InitFault ==
    /\ InitWatcher
    /\ NoApp
    /\ faults = MaxFaults

\* an injected failure is still possible
CanFail == faults > 0
Outcomes == IF CanFail THEN {"ok", "fail"} ELSE {"ok"}

\* ------------------------------------------------------ the file system
\* the writer creates the file at the path (O_CREATE|O_EXCL)
Create ==
    /\ UNCHANGED appVars
    /\ pathIno = 0
    /\ created < MaxFiles
    /\ created' = created + 1
    /\ pathIno' = created + 1
    /\ UNCHANGED <<files, handles, faults, watcherVars, waitVars, closeRets,
                   delivered, hist>>

\* a writer appends one byte to a file it holds open: the file at the path
\* or the one renamed aside last
AppendByte(i) ==
    /\ UNCHANGED appVars
    /\ i <= created
    /\ i >= created - 1
    /\ files[i] < MaxSize
    /\ files' = [files EXCEPT ![i] = @ + 1]
    /\ UNCHANGED <<created, pathIno, handles, faults, watcherVars, waitVars,
                   closeRets, delivered, hist>>

\* the rotator renames the file at the path aside
Rotate ==
    /\ UNCHANGED appVars
    /\ pathIno # 0
    /\ pathIno' = 0
    /\ UNCHANGED <<files, created, handles, faults, watcherVars, waitVars,
                   closeRets, delivered, hist>>

\* --------------------------------------------------------------- Wait()
\* history of a call that began after Close() had returned: whether it
\* touched the file system and whether it sat out a poll interval
Touch(h)  == [h EXCEPT !.touched = h.calledClosed]
Waited(h) == [h EXCEPT !.waited = h.calledClosed]

\* The return statement and the deferred function: stop and drain the
\* timer, unlock, hand (s, closed, err) to the caller.
Return(st, cl, err) ==
    /\ pc' = "idle"
    /\ mu' = "free"
    /\ s' = ZeroStatus
    /\ fl' = 0
    /\ ret' = [kind |-> "ret", s |-> st, closed |-> cl, err |-> err]

\* The top of the for loop, reached holding the mutex:
\* p.timer.Reset(p.c.Interval); p.mu.Unlock(); the select begins.
Sleep ==
    /\ pc' = "sleep"
    /\ mu' = "free"

\* `continue`
Continue ==
    /\ Sleep
    /\ UNCHANGED <<s, fl, ret>>

\* Wait() is called: p.mu.Lock(), the deferred cleanup is registered, the
\* first iteration starts
WaitCall ==
    /\ UNCHANGED appVars
    /\ pc = "idle"
    /\ mu = "free"
    /\ Sleep
    /\ s' = ZeroStatus
    /\ fl' = 0
    /\ ret' = [kind |-> "none", s |-> ZeroStatus, closed |-> FALSE, err |-> ErrNil]
    /\ hist' = [hist EXCEPT !.calledClosed = closed, !.touched = FALSE,
                            !.waited = FALSE]
    /\ UNCHANGED <<fsVars, handles, faults, watcherVars, closeRets, delivered>>

\* the cases of the select that can proceed: `<-p.cancel` once the channel
\* is closed; `<-p.timer.C` once the interval has passed, which a select
\* that finds p.cancel closed on entry does not wait for
SelectCases == IF cancel THEN {"cancel"} ELSE {"timer"}

\* the iteration without its `if p.closed` check
AfterSelectNoClosedCheck == IF f = 0 THEN "open" ELSE "fstat"

\* what follows p.mu.Lock() after the select: closed, S0 or S1
AfterSelect == IF closed THEN "closed" ELSE IF f = 0 THEN "open" ELSE "fstat"

\* the select returns, p.mu.Lock(), `if p.closed`, `if p.f == nil`
WaitWake ==
    /\ UNCHANGED appVars
    /\ pc = "sleep"
    /\ mu = "free"
    /\ \E c \in SelectCases :
         hist' = IF c = "timer" THEN Waited(hist) ELSE hist
    /\ IF AfterSelect = "closed"
          THEN Return(s, TRUE, ErrNil)
          ELSE /\ mu' = "wait"
               /\ pc' = AfterSelect
               /\ UNCHANGED <<s, fl, ret>>
    /\ UNCHANGED <<fsVars, handles, faults, watcherVars, closeRets, delivered>>

\* pollWatcher.openAndSeek after os.Open succeeded on handle h: what becomes
\* of the handle's offset and of the one-shot first-open configuration
openAndSeek(h, fs) ==
    IF ~StartState.nil
        THEN LET r == SeekIfMatches(StartState, h, fs) IN
             [off |-> r.off, StartState |-> NilStartState, Whence |-> SeekStart,
              how |-> IF r.matches THEN "resumed" ELSE "declined"]
    ELSE IF Whence # SeekStart
        THEN [off |-> Seek(h, fs, 0, Whence), StartState |-> StartState,
              Whence |-> SeekStart, how |-> "whence"]
    ELSE [off |-> h.off, StartState |-> StartState, Whence |-> Whence,
          how |-> "plain"]

\* a not-found error taken for any other error
IsNotExistNever(err) == FALSE

\* os.IsNotExist(err)
IsNotExist(err) == err = ErrNotExist

\* the errors `f, err := p.openAndSeek()` can return: os.Open finds the path
\* absent; os.Open fails otherwise; the seek after it fails (and the file is
\* closed again); or none
OpenErrs ==
    IF pathIno = 0 THEN {ErrNotExist}
    ELSE {ErrNil} \cup (IF CanFail THEN {ErrIO} ELSE {})

\* S0, `f, err := p.openAndSeek()` and the two error branches after it
WaitOpen ==
    /\ UNCHANGED appVars
    /\ pc = "open"
    /\ mu = "wait"
    /\ hist' = [Touch(hist) EXCEPT
                  !.sawNotFound = @ \/ (pathIno = 0 /\ handles = <<>>)]
    /\ \E err \in OpenErrs :
         IF IsNotExist(err)
            THEN \* p.c.Whence = io.SeekStart; continue
                 /\ Whence' = SeekStart
                 /\ Continue
                 /\ UNCHANGED <<handles, faults, StartState>>
         ELSE IF err # ErrNil
            THEN \* return s, p.closed, err
                 /\ faults' = IF err = ErrIO THEN faults - 1 ELSE faults
                 /\ Return(s, closed, err)
                 /\ UNCHANGED <<handles, Whence, StartState>>
         ELSE LET h0 == [ino |-> pathIno, off |-> 0, open |-> TRUE]
                  r  == openAndSeek(h0, files) IN
              /\ handles' = Append(handles, [h0 EXCEPT !.off = r.off])
              /\ StartState' = r.StartState
              /\ Whence' = r.Whence
              /\ fl' = Len(handles) + 1
              /\ pc' = "newstate"
              /\ UNCHANGED <<faults, mu, s, ret>>
    /\ UNCHANGED <<fsVars, f, closed, cancel, closeRets, delivered>>

\* a watcher that does not mark the status of a file it has just opened
OpenedUnmarked(st, k) == [State |-> st, File |-> k, ReOpened |-> FALSE]

\* `s.File = f; s.ReOpened = true`: the status returned for the handle k
\* just opened, st being its FileState
Opened(st, k) == [State |-> st, File |-> k, ReOpened |-> TRUE]

\* S0, `s.State, err = NewFileState(f)` and the successful return
WaitNewState ==
    /\ UNCHANGED appVars
    /\ pc = "newstate"
    /\ mu = "wait"
    /\ \E o \in Outcomes :
         IF o = "fail"
            THEN \* return s, p.closed, err: f is neither stored nor closed
                 /\ faults' = faults - 1
                 /\ Return([s EXCEPT !.State = ZeroState], closed, ErrIO)
                 /\ UNCHANGED f
            ELSE /\ f' = fl
                 /\ Return(Opened(NewFileState(handles[fl], files), fl),
                           FALSE, ErrNil)
                 /\ UNCHANGED faults
    /\ hist' = Touch(hist)
    /\ UNCHANGED <<fsVars, handles, Whence, StartState, closed, cancel,
                   closeRets, delivered>>

\* `s.State.Size > s.State.Position`
HasData(st) == st.Size > st.Position

\* S1, `s.File = p.f; s.State, err = NewFileState(p.f)` and the size check
WaitFileState ==
    /\ UNCHANGED appVars
    /\ pc = "fstat"
    /\ mu = "wait"
    /\ \E o \in Outcomes :
         IF o = "fail"
            THEN /\ faults' = faults - 1
                 /\ Return([s EXCEPT !.File = f, !.State = ZeroState], FALSE, ErrIO)
            ELSE LET st == [s EXCEPT !.File = f,
                                     !.State = NewFileState(handles[f], files)] IN
                 /\ UNCHANGED faults
                 /\ IF HasData(st.State)
                       THEN Return(st, FALSE, ErrNil)
                       ELSE /\ pc' = "pathstat"
                            /\ s' = st
                            /\ UNCHANGED <<mu, fl, ret>>
    /\ hist' = Touch(hist)
    /\ UNCHANGED <<fsVars, handles, watcherVars, closeRets, delivered>>

\* the if / else-if / else after NewFileStateFromPath(p.c.Path): what the
\* iteration does given the stat's error and the two inodes
AfterPathStat(err, open, named) ==
    IF err = ErrNil /\ open = named THEN "continue"
    ELSE IF IsNotExist(err) THEN "continue"
    ELSE "return"

\* NewFileStateFromPath(p.c.Path): the errors it can return
PathStatErrs ==
    IF pathIno = 0 THEN {ErrNotExist}
    ELSE {ErrNil} \cup (IF CanFail THEN {ErrIO} ELSE {})

\* the naive strategy: switch to the replacement as soon as the path names
\* another inode, without looking at the open file again
WaitPathStatNaive ==
    /\ UNCHANGED appVars
    /\ pc = "pathstat"
    /\ mu = "wait"
    /\ hist' = Touch(hist)
    /\ \E err \in PathStatErrs :
         /\ faults' = IF err = ErrIO THEN faults - 1 ELSE faults
         /\ IF AfterPathStat(err, s.State.Inode, pathIno) = "continue"
               THEN Continue /\ UNCHANGED <<handles, f>>
            ELSE IF err # ErrNil
               THEN Return(s, FALSE, err) /\ UNCHANGED <<handles, f>>
            ELSE /\ handles' = [handles EXCEPT ![f].open = FALSE]
                 /\ f' = 0
                 /\ Continue
    /\ UNCHANGED <<fsVars, Whence, StartState, closed, cancel, closeRets,
                   delivered>>

\* S1, `stateNamed, err := NewFileStateFromPath(p.c.Path)` and its branches.
\* Each branch ends the iteration, so the statements after the else (the
\* second size check, p.f.Close(), p.f = nil) are never executed.
WaitPathStat ==
    /\ UNCHANGED appVars
    /\ pc = "pathstat"
    /\ mu = "wait"
    /\ hist' = Touch(hist)
    /\ \E err \in PathStatErrs :
         /\ faults' = IF err = ErrIO THEN faults - 1 ELSE faults
         /\ IF AfterPathStat(err, s.State.Inode, pathIno) = "continue"
               THEN Continue
               ELSE Return(s, FALSE, err)
    /\ UNCHANGED <<fsVars, handles, watcherVars, closeRets, delivered>>

\* -------------------------------------------------------------- Close()
\* (*os.File).Close(): the error it returns for handle h
FileClose(h) == IF h.open THEN ErrNil ELSE ErrClosed

\* Close(), from p.mu.Lock() to the deferred p.mu.Unlock(); it waits while
\* the goroutine in Wait() holds the mutex
Close ==
    /\ UNCHANGED appVars
    /\ Len(closeRets) < MaxCloses
    /\ mu = "free"
    /\ closed' = TRUE
    /\ cancel' = TRUE
    /\ IF f # 0
          THEN /\ closeRets' = Append(closeRets, FileClose(handles[f]))
               /\ handles' = [handles EXCEPT ![f].open = FALSE]
          ELSE /\ closeRets' = Append(closeRets, ErrNil)
               /\ UNCHANGED handles
    /\ UNCHANGED <<fsVars, faults, f, Whence, StartState, waitVars, delivered,
                   hist>>

\* ------------------------------------------------------------- consumer
\* the handle the last successful Wait() handed out
Borrowed == IF ret.kind = "ret" /\ ~ret.closed /\ ret.err = ErrNil
               THEN ret.s.File ELSE 0

\* the consumer reads one byte from the handle Wait() returned
Read ==
    /\ UNCHANGED appVars
    /\ pc = "idle"
    /\ Borrowed # 0
    /\ LET h == handles[Borrowed] IN
       /\ h.open
       /\ h.off < files[h.ino]
       /\ delivered' = Append(delivered, <<h.ino, h.off>>)
       /\ handles' = [handles EXCEPT ![Borrowed].off = @ + 1]
    /\ UNCHANGED <<fsVars, faults, watcherVars, waitVars, closeRets, hist>>

\* ------------------------------------------------------ LineReader.Next
\* everything but the applications
coreVars == <<fsVars, handles, faults, watcherVars, waitVars, closeRets,
              delivered, hist>>

\* the offset of the first '\n' at offsets a .. b-1 of the text, -1 if none
FirstLF(a, b) ==
    IF \E k \in a..(b - 1) : text[k + 1] = LF
        THEN CHOOSE k \in a..(b - 1) :
                 /\ text[k + 1] = LF
                 /\ \A j \in a..(k - 1) : text[j + 1] # LF
        ELSE -1

\* l.br.ReadBytes('\n') on a bufio.Reader whose unread bytes are those at
\* offsets pos .. off-1 of a file of `size` bytes, the descriptor being at
\* off: the bytes returned, the error, the descriptor's offset and the
\* number of bytes left in the buffer.  The reader reads the file only when
\* its buffer holds no '\n'; ioErr is what that read comes to (nil, or the
\* error it fails with).
ReadBytes(pos, off, size, ioErr) ==
    IF FirstLF(pos, off) >= 0
        THEN [b |-> SubText(pos, FirstLF(pos, off) + 1), err |-> ErrNil,
              off |-> off, buf |-> off - (FirstLF(pos, off) + 1)]
    ELSE IF ioErr # ErrNil
        THEN [b |-> SubText(pos, off), err |-> ioErr, off |-> off, buf |-> 0]
    ELSE IF FirstLF(off, size) >= 0
        THEN [b |-> SubText(pos, FirstLF(off, size) + 1), err |-> ErrNil,
              off |-> size, buf |-> size - (FirstLF(off, size) + 1)]
    ELSE [b |-> SubText(pos, size), err |-> ErrEOF, off |-> size, buf |-> 0]

\* what a read of handle h can come to: it fails on a closed file, and may
\* fail with an I/O error
ReadErrs(h) ==
    IF ~h.open THEN {ErrClosed}
    ELSE {ErrNil} \cup (IF CanFail THEN {ErrIO} ELSE {})

\* a trim that strips the "\n" only
TrimLFOnly(line) == SubSeq(line, 1, Len(line) - 1)

\* the end of Next(): the record without its "\n" or "\r\n"
Trim(line) ==
    LET n == Len(line) IN
    IF n >= 2 /\ line[n - 1] = CR /\ line[n] = LF
        THEN SubSeq(line, 1, n - 2)
        ELSE SubSeq(line, 1, n - 1)

\* a reader that hands io.EOF to the handler like any other error
ReadErrHandledAlways(err) == TRUE

\* `if err != io.EOF`: the read errors passed to the handler
ReadErrHandled(err) == err # ErrEOF

\* a reader that ignores StopAtEOF
AtEOFWaits(stopAtEOF) == "wait"

\* `if l.c.StopAtEOF`: what an io.EOF leads to
AtEOF(stopAtEOF) == IF stopAtEOF THEN "stop" ELSE "wait"

\* what l.onErr(err) can return
HandlerRets(h) == IF h = "discard" THEN {ErrNil} ELSE {ErrNil, ErrHandler}

\* a reader that keeps only the bytes of its last read
AppendLastOnly(lastBytes, b) == b

\* `if len(b) > 0 { l.lastBytes = append(l.lastBytes, b...) }`: the bytes
\* Next() holds after a read that returned b
AppendBytes(lastBytes, b) == lastBytes \o b

\* l.sleep(t): TRUE when the time has passed, FALSE when l.stop is closed;
\* for t > 0 the select may take either case once both are ready
SleepOutcomes(l) ==
    IF ~l.stop THEN {TRUE}
    ELSE IF l.zeroSleep THEN {FALSE}
    ELSE {FALSE, TRUE}

\* Next() is called: l.lastBytes = nil, sleepTime = 0
LRNext ==
    /\ lr.pc = "idle"
    /\ lr' = [lr EXCEPT !.pc = "top", !.ret = "none", !.lastBytes = <<>>,
                        !.zeroSleep = TRUE, !.joined = FALSE]
    /\ UNCHANGED <<coreVars, text, po, sk, other>>

\* the top of the loop: `if l.err != nil || !l.sleep(sleepTime)`,
\* sleepTime = l.c.Interval, `if l.br == nil { goto Wait }`
LRTop ==
    /\ lr.pc = "top"
    /\ \E awake \in (IF lr.err # ErrNil THEN {FALSE} ELSE SleepOutcomes(lr)) :
         lr' = IF awake
                  THEN [lr EXCEPT !.zeroSleep = FALSE,
                                  !.pc = IF lr.br = 0 THEN "wait" ELSE "read"]
                  ELSE [lr EXCEPT !.pc = "idle", !.ret = "false"]
    /\ UNCHANGED <<coreVars, text, po, sk, other>>

\* b, err = l.br.ReadBytes('\n') and what follows it up to the Wait label
LRRead ==
    /\ lr.pc = "read"
    /\ LET h == handles[lr.br] IN
       \E ioErr \in ReadErrs(h) :
         LET r  == ReadBytes(h.off - lr.buf, h.off, files[h.ino], ioErr)
             l1 == [lr EXCEPT !.s.State.Position = @ + Len(r.b),
                              !.lastBytes = AppendBytes(@, r.b),
                              !.buf = r.buf,
                              !.lastErr = r.err,
                              !.handled = ErrNil,
                              !.joined = @ \/ (lr.lastBytes # <<>> /\ r.b # <<>>)]
         IN  /\ handles' = [handles EXCEPT ![lr.br].off = r.off]
             /\ faults' = IF r.err = ErrIO THEN faults - 1 ELSE faults
             /\ IF r.err = ErrNil
                   THEN \* break; trim; return true
                        lr' = [l1 EXCEPT !.lastBytes = Trim(@), !.pc = "idle",
                                         !.ret = "true",
                                         !.lineStart = r.off - r.buf]
                ELSE IF ReadErrHandled(r.err)
                   THEN \* l.err = l.onErr(err); sleepTime = time.Second
                        \E hr \in HandlerRets(lr.onErr) :
                          lr' = [l1 EXCEPT !.err = hr, !.pc = "top",
                                           !.handled = r.err]
                ELSE IF AtEOF(lr.StopAtEOF) = "stop"
                   THEN \* l.err = err; continue
                        lr' = [l1 EXCEPT !.err = r.err, !.pc = "top"]
                ELSE lr' = [l1 EXCEPT !.pc = "wait"]
    /\ UNCHANGED <<fsVars, watcherVars, waitVars, closeRets, delivered, hist,
                   text, po, sk, other>>

\* `s, closed, err := l.r.Wait()`: the call
LRWaitCall ==
    /\ lr.pc = "wait"
    /\ ret.kind = "none"
    /\ WaitCall

\* Wait() has returned: `if closed`, l.s = s, `if err != nil`,
\* `if s.ReOpened`
LRAfterWait ==
    /\ lr.pc = "wait"
    /\ pc = "idle"
    /\ ret.kind = "ret"
    /\ ret' = [kind |-> "none", s |-> ZeroStatus, closed |-> FALSE, err |-> ErrNil]
    /\ IF ret.closed
          THEN lr' = [lr EXCEPT !.pc = "idle", !.ret = "false",
                                !.lastErr = ErrNil, !.handled = ErrNil]
          ELSE LET l1 == [lr EXCEPT !.s = ret.s, !.lastErr = ret.err,
                                    !.handled = ErrNil, !.pc = "top"] IN
               IF ret.err # ErrNil
                  THEN \E hr \in HandlerRets(lr.onErr) :
                         lr' = [l1 EXCEPT !.err = hr, !.handled = ret.err]
               ELSE IF ret.s.ReOpened
                  THEN lr' = [l1 EXCEPT !.br = ret.s.File, !.buf = 0,
                                        !.lineStart = handles[ret.s.File].off]
               ELSE lr' = l1
    /\ UNCHANGED <<fsVars, handles, faults, watcherVars, mu, pc, s, fl,
                   closeRets, delivered, hist, text, po, sk, other>>

\* LineReader.Close(), its first half: close(l.stop).  Close "should only
\* be called once" on a LineReader.
LRCloseStop ==
    /\ lr.closes = 0
    /\ closeRets = <<>>
    /\ lr' = [lr EXCEPT !.stop = TRUE, !.closes = @ + 1]
    /\ UNCHANGED <<coreVars, text, po, sk, other>>

\* LineReader.Close(), its second half: return l.r.Close()
LRCloseWatcher ==
    /\ Len(closeRets) < lr.closes
    /\ Close

\* The caller, having got a record, captures FileState() and constructs a
\* new LineReader (and so a new watcher) with StartState set to it and the
\* rest of the Config as before.
LRRestart ==
    /\ ~lr.restarted
    /\ lr.pc = "idle"
    /\ lr.ret = "true"
    /\ lr.closes = Len(closeRets)
    /\ f' = 0
    /\ Whence' = hist.whence0
    /\ StartState' = [nil |-> FALSE, Inode |-> lr.s.State.Inode,
                      Position |-> lr.s.State.Position]
    /\ closed' = FALSE
    /\ cancel' = FALSE
    /\ hist' = [hist EXCEPT !.start0 = StartState', !.sawNotFound = FALSE]
    /\ lr' = [NewLineReader(lr.StopAtEOF, lr.onErr) EXCEPT
                !.restarted = TRUE,
                !.closes = lr.closes,
                !.expect = [ino |-> handles[lr.br].ino,
                            off |-> handles[lr.br].off - lr.buf]]
    /\ UNCHANGED <<fsVars, handles, faults, waitVars, closeRets, delivered,
                   text, po, sk, other>>

\* ----------------------------------------------------------------- Next
\* the writer and the rotator
Env ==
    \/ Create
    \/ \E i \in Inodes : AppendByte(i)
    \/ Rotate

\* the steps of a running call of Wait()
WaitStep ==
    \/ WaitWake
    \/ WaitOpen
    \/ WaitNewState
    \/ WaitFileState
    \/ WaitPathStat

\* the watcher, its consumer and its environment, nobody calling Close()
NextOpen ==
    \/ Env
    \/ WaitCall
    \/ WaitStep
    \/ Read

Next ==
    \/ NextOpen
    \/ Close

\* no I/O failure, any thread may call Close()
Spec == Init /\ [][Next]_vars

\* I/O failures, no call of Close()
SpecFault == InitFault /\ [][NextOpen]_vars

\* I/O failures, and any thread may call Close()
SpecFaultClose == InitFault /\ [][Next]_vars

\* Spec with the scheduling the Go runtime and the consumer give: a running
\* call of Wait() keeps taking steps, the consumer calls Wait() again after
\* each return, and it reads what a returned handle has to offer.
SpecFair ==
    /\ Init
    /\ [][Next]_vars
    /\ WF_vars(WaitStep)
    /\ WF_vars(WaitCall)
    /\ SF_vars(Read)


\* the steps of the LineReader and of the watcher it wraps
LRStep ==
    \/ LRTop
    \/ LRRead
    \/ LRWaitCall
    \/ LRAfterWait
    \/ WaitStep

\* the LineReader, a caller that keeps calling Next(), and the environment
NextLRRun ==
    \/ Env
    \/ LRNext
    \/ LRStep

\* the same with a caller that may also close the LineReader or replace it
\* by a new one resuming from its FileState()
NextLR ==
    \/ NextLRRun
    \/ LRCloseStop
    \/ LRCloseWatcher
    \/ LRRestart

\* a LineReader built with no StartState, any whence, StopAtEOF and handler
InitLR ==
    /\ InitWatcher
    /\ StartState.nil
    /\ text \in Texts
    /\ lr \in {NewLineReader(e, h) : e \in BOOLEAN, h \in Handlers}
    /\ po = NewPoller(SeekStart)
    /\ sk = NoSeekCall
    /\ other = NotWaiting

\* no I/O failure other than not-found occurs
InitLRNoFault ==
    /\ InitLR
    /\ faults = 0

\* up to MaxFaults calls of open, stat, seek or read fail with an I/O error
InitLRFault ==
    /\ InitLR
    /\ faults = MaxFaults

\* the LineReader without I/O failures
SpecLR == InitLRNoFault /\ [][NextLR]_vars

\* a LineReader with no handler that reads from the start and waits at
\* end of file, with up to MaxFaults I/O failures
InitLRResume ==
    /\ InitLR
    /\ Whence = SeekStart
    /\ lr = NewLineReader(FALSE, "discard")
    /\ faults = MaxFaults

\* the LineReader and a caller that may replace it by a new one resuming
\* from its FileState()
NextLRResume ==
    \/ NextLRRun
    \/ LRRestart

\* that LineReader with up to MaxFaults I/O failures and a caller that may
\* replace it by a new one resuming from its FileState()
SpecLRResume == InitLRResume /\ [][NextLRResume]_vars

\* the LineReader with up to MaxFaults I/O failures, never closed
SpecLRFault == InitLRFault /\ [][NextLRRun]_vars

\* the LineReader, never closed, with the scheduling of the Go runtime and
\* a caller that keeps calling Next()
SpecLRFair ==
    /\ InitLRNoFault
    /\ [][NextLRRun]_vars
    /\ WF_vars(LRStep)
    /\ WF_vars(LRNext)

\* --------------------------------------------------------------- Poller
\* everything the Poller never touches
pollerFrame == <<fsVars, watcherVars, waitVars, closeRets, hist, text, lr,
                 sk, other>>

\* p.getFile(): the Poller with (f, closed) of Read set to (p.f, p.closed)
getFile(p) == [p EXCEPT !.lf = p.f, !.lclosed = p.closed]

\* Read(b) is called with len(b) = cap: `f, closed := p.getFile()`
PollerRead ==
    /\ po.pc = "idle"
    /\ \E cap \in 1..MaxSize :
         po' = [getFile(po) EXCEPT !.pc = "loop", !.cap = cap,
                                   !.ret = [n |-> 0, err |-> "none"],
                                   !.handled = ErrNil]
    /\ UNCHANGED <<pollerFrame, handles, faults, delivered>>

\* the errors p.f.Read(b) can return: the file was closed by Close(), an
\* I/O failure, io.EOF at the end of the file, or none
FileReadErrs(h) ==
    IF ~h.open THEN {ErrClosed}
    ELSE (IF CanFail THEN {ErrIO} ELSE {}) \cup
         (IF h.off >= files[h.ino] THEN {ErrEOF} ELSE {ErrNil})

\* the smaller of two numbers
Min(a, b) == IF a < b THEN a ELSE b

\* one round of the loop of Read(): `for !closed`, `if f == nil`,
\* n, err = p.f.Read(b), p.bytesRead += int64(n) and the returns
PollerLoop ==
    /\ po.pc = "loop"
    /\ IF po.lclosed
          THEN \* return 0, os.ErrClosed
               /\ po' = [po EXCEPT !.pc = "idle", !.cap = 0, !.handled = ErrNil,
                                   !.ret = [n |-> 0, err |-> ErrClosed]]
               /\ UNCHANGED <<handles, faults, delivered>>
       ELSE IF po.lf = 0
          THEN \* f, closed = p.reopenForever()
               /\ po' = [po EXCEPT !.pc = "reopen", !.handled = ErrNil]
               /\ UNCHANGED <<handles, faults, delivered>>
       ELSE LET h == handles[po.f] IN
            \E err \in FileReadErrs(h) :
              IF err = ErrNil
                 THEN LET n == Min(po.cap, files[h.ino] - h.off) IN
                      /\ handles' = [handles EXCEPT ![po.f].off = @ + n]
                      /\ delivered' = delivered \o
                                      [j \in 1..n |-> <<h.ino, h.off + j - 1>>]
                      /\ po' = [po EXCEPT !.bytesRead = @ + n, !.pc = "idle",
                                          !.cap = 0, !.handled = ErrNil,
                                          !.ret = [n |-> n, err |-> ErrNil]]
                      /\ UNCHANGED faults
              ELSE IF err = ErrEOF
                 THEN \* n == 0: f, closed = p.waitForMore()
                      /\ po' = [po EXCEPT !.pc = "wait", !.handled = ErrNil]
                      /\ UNCHANGED <<handles, faults, delivered>>
              ELSE \* return n, err
                   /\ po' = [po EXCEPT !.pc = "idle", !.cap = 0,
                                       !.handled = ErrNil,
                                       !.ret = [n |-> 0, err |-> err]]
                   /\ faults' = IF err = ErrIO THEN faults - 1 ELSE faults
                   /\ UNCHANGED <<handles, delivered>>
    /\ UNCHANGED pollerFrame

\* the cases of a select on p.cancel and p.timer.C that can be taken
PollerSelect(p) == IF p.cancel THEN {"cancel", "timer"} ELSE {"timer"}

\* waitForMore(): p.timer.Reset(p.c.Interval) and the select
PollerWaitSleep ==
    /\ po.pc = "wait"
    /\ \E c \in PollerSelect(po) :
         po' = IF c = "cancel"
                  THEN [getFile(po) EXCEPT !.pc = "loop", !.handled = ErrNil]
                  ELSE [po EXCEPT !.pc = "fstat", !.handled = ErrNil]
    /\ UNCHANGED <<pollerFrame, handles, faults, delivered>>

\* waitForMore(): f, closed = p.getFile(), f.Stat() and
\* `if statCurrent.Size() > p.bytesRead`
PollerWaitFileStat ==
    /\ po.pc = "fstat"
    /\ IF po.closed
          THEN /\ po' = [getFile(po) EXCEPT !.pc = "loop"]
               /\ UNCHANGED faults
          ELSE \E o \in Outcomes :
                 IF o = "fail"
                    THEN \* p.c.OnError(err); continue
                         /\ po' = [po EXCEPT !.pc = "wait", !.handled = ErrIO]
                         /\ faults' = faults - 1
                 ELSE IF files[handles[po.f].ino] > po.bytesRead
                    THEN \* return f, false
                         /\ po' = [getFile(po) EXCEPT !.pc = "loop"]
                         /\ UNCHANGED faults
                 ELSE /\ po' = [po EXCEPT !.pc = "pathstat"]
                      /\ UNCHANGED faults
    /\ UNCHANGED <<pollerFrame, handles, delivered>>

\* waitForMore(): os.Stat(p.c.FilePath), os.SameFile and
\* `return p.reopenForever()`
PollerWaitPathStat ==
    /\ po.pc = "pathstat"
    /\ \E err \in PathStatErrs :
         /\ po' = IF err # ErrNil
                     THEN [po EXCEPT !.pc = "wait", !.handled = err]
                  ELSE IF pathIno = handles[po.f].ino
                     THEN [po EXCEPT !.pc = "wait"]
                  ELSE [po EXCEPT !.pc = "reopen"]
         /\ faults' = IF err = ErrIO THEN faults - 1 ELSE faults
    /\ UNCHANGED <<pollerFrame, handles, delivered>>

\* reopenForever(): os.Open(p.c.FilePath) and, unless it succeeded with
\* Whence == io.SeekStart, f.Seek(0, p.c.Whence), which is called on a nil
\* file when the open failed
PollerOpen ==
    /\ po.pc = "reopen"
    /\ \E err \in OpenErrs :
         IF err # ErrNil
            THEN \* f == nil: f.Seek returns os.ErrInvalid; p.c.OnError(err)
                 /\ po' = [po EXCEPT !.pc = "retry", !.handled = ErrInvalid]
                 /\ faults' = IF err = ErrIO THEN faults - 1 ELSE faults
                 /\ UNCHANGED handles
         ELSE LET h0 == [ino |-> pathIno, off |-> 0, open |-> TRUE]
                  k  == Len(handles) + 1 IN
              IF po.Whence = SeekStart
                 THEN /\ handles' = Append(handles, h0)
                      /\ po' = [po EXCEPT !.pc = "replace", !.lf = k,
                                          !.handled = ErrNil]
                      /\ UNCHANGED faults
              ELSE \E o \in Outcomes :
                     IF o = "fail"
                        THEN \* the seek failed: p.c.OnError(err), f stays open
                             /\ handles' = Append(handles, h0)
                             /\ po' = [po EXCEPT !.pc = "retry",
                                                 !.handled = ErrIO]
                             /\ faults' = faults - 1
                        ELSE \* p.c.Whence = io.SeekStart
                             /\ handles' = Append(handles,
                                   [h0 EXCEPT !.off = Seek(h0, files, 0, po.Whence)])
                             /\ po' = [po EXCEPT !.pc = "replace", !.lf = k,
                                                 !.Whence = SeekStart,
                                                 !.handled = ErrNil]
                             /\ UNCHANGED faults
    /\ UNCHANGED <<pollerFrame, delivered>>

\* replaceFileOrClose(f), under p.mu; p.bytesRead is left as it is
replaceFileOrClose ==
    /\ po.pc = "replace"
    /\ IF po.closed
          THEN /\ handles' = [handles EXCEPT ![po.lf].open = FALSE]
               /\ po' = [po EXCEPT !.pc = "loop", !.lclosed = TRUE]
          ELSE /\ handles' = [k \in 1..Len(handles) |->
                                IF k = po.f THEN [handles[k] EXCEPT !.open = FALSE]
                                            ELSE handles[k]]
               /\ po' = [po EXCEPT !.pc = "loop", !.f = po.lf,
                                   !.lclosed = FALSE]
    /\ UNCHANGED <<pollerFrame, faults, delivered>>

\* reopenForever(): p.timer.Reset(p.c.Interval) and the select after a
\* failed attempt
PollerRetrySleep ==
    /\ po.pc = "retry"
    /\ \E c \in PollerSelect(po) :
         po' = IF c = "cancel"
                  THEN [getFile(po) EXCEPT !.pc = "loop", !.handled = ErrNil]
                  ELSE [po EXCEPT !.pc = "reopen", !.handled = ErrNil]
    /\ UNCHANGED <<pollerFrame, handles, faults, delivered>>

\* Poller.Close(), under p.mu
PollerClose ==
    /\ po.closes < MaxCloses
    /\ po' = [po EXCEPT !.cancel = TRUE, !.closed = TRUE, !.closes = @ + 1]
    /\ handles' = [k \in 1..Len(handles) |->
                     IF k = po.f THEN [handles[k] EXCEPT !.open = FALSE]
                                 ELSE handles[k]]
    /\ UNCHANGED <<pollerFrame, faults, delivered>>

\* the steps of a running Read()
PollerStep ==
    \/ PollerLoop
    \/ PollerWaitSleep
    \/ PollerWaitFileStat
    \/ PollerWaitPathStat
    \/ PollerOpen
    \/ replaceFileOrClose
    \/ PollerRetrySleep

\* the Poller, a caller that keeps calling Read(), and the environment
NextPollerRun ==
    \/ Env
    \/ PollerRead
    \/ PollerStep

\* the same with a thread that may call Close()
NextPoller ==
    \/ NextPollerRun
    \/ PollerClose

\* a Poller built with any whence; no watcher and no LineReader
InitPoller ==
    /\ InitWatcher
    /\ Whence = SeekStart
    /\ StartState.nil
    /\ text = PlainText
    /\ lr = NewLineReader(FALSE, "discard")
    /\ po \in {NewPoller(w) : w \in Whences}
    /\ sk = NoSeekCall
    /\ other = NotWaiting

\* up to MaxFaults calls of open, stat, seek or read fail with an I/O error
InitPollerFault ==
    /\ InitPoller
    /\ faults = MaxFaults

\* no I/O failure other than not-found occurs
InitPollerNoFault ==
    /\ InitPoller
    /\ faults = 0

\* the Poller with up to MaxFaults I/O failures and calls of Close()
SpecPoller == InitPollerFault /\ [][NextPoller]_vars

\* the Poller, never closed and without I/O failures, with the scheduling
\* of the Go runtime and a caller that keeps calling Read()
SpecPollerFair ==
    /\ InitPollerNoFault
    /\ [][NextPollerRun]_vars
    /\ WF_vars(PollerStep)
    /\ WF_vars(PollerRead)

\* -------------------------------------------------------- SeekIfMatches
\* the positions a FileState handed to SeekIfMatches may hold: inside the
\* file, beyond its end, and negative
SeekPositions == (0 - 1)..(MaxSize + 1)

\* the FileStates handed to SeekIfMatches
FileStates == [Size : 0..MaxSize, Position : SeekPositions, Inode : 0..MaxFiles]

\* a caller holds one open file at some offset and a FileState
InitSeek ==
    /\ files \in [Inodes -> 0..MaxSize]
    /\ created = MaxFiles
    /\ pathIno = MaxFiles
    /\ handles \in {<<[ino |-> i, off |-> o, open |-> TRUE]>> :
                      i \in Inodes, o \in 0..MaxSize}
    /\ faults = MaxFaults
    /\ f = 0
    /\ Whence = SeekStart
    /\ StartState = NilStartState
    /\ closed = FALSE
    /\ cancel = FALSE
    /\ mu = "free"
    /\ pc = "idle"
    /\ s = ZeroStatus
    /\ fl = 0
    /\ ret = [kind |-> "none", s |-> ZeroStatus, closed |-> FALSE, err |-> ErrNil]
    /\ closeRets = <<>>
    /\ delivered = <<>>
    /\ hist = [whence0 |-> Whence, start0 |-> StartState, sawNotFound |-> FALSE,
               calledClosed |-> FALSE, touched |-> FALSE, waited |-> FALSE]
    /\ text = PlainText
    /\ lr = NewLineReader(FALSE, "discard")
    /\ po = NewPoller(SeekStart)
    /\ sk \in {[NoSeekCall EXCEPT !.s = st, !.h0 = handles[1]] : st \in FileStates}
    /\ other = NotWaiting

\* s.SeekIfMatches(f) is called on the open file: NewFileState(f) and its
\* error return, the two declining returns, f.Seek(s.Position,
\* io.SeekStart) (which fails for a negative position) and its error return
SeekIfMatchesCall ==
    /\ sk.kind = "none"
    /\ LET h == handles[1]
           r == SeekIfMatches(sk.s, h, files)
           failed(m, e) == [sk EXCEPT !.kind = "ret", !.fs = ZeroState,
                                      !.matches = m, !.err = e]
       IN  \/ /\ CanFail
              /\ sk' = failed(FALSE, ErrIO)
              /\ faults' = faults - 1
              /\ UNCHANGED handles
           \/ /\ r.matches
              /\ CanFail \/ sk.s.Position < 0
              /\ sk' = failed(TRUE, ErrIO)
              /\ faults' = IF sk.s.Position < 0 THEN faults ELSE faults - 1
              /\ UNCHANGED handles
           \/ /\ ~(r.matches /\ sk.s.Position < 0)
              /\ sk' = [sk EXCEPT !.kind = "ret", !.fs = r.fs,
                                  !.matches = r.matches, !.err = ErrNil]
              /\ handles' = [handles EXCEPT ![1].off = r.off]
              /\ UNCHANGED faults
    /\ UNCHANGED <<fsVars, watcherVars, waitVars, closeRets, delivered, hist,
                   text, lr, po, other>>

\* SeekIfMatches called once on any file, offset and FileState, with up to
\* MaxFaults I/O failures
SpecSeek == InitSeek /\ [][SeekIfMatchesCall]_vars

\* ------------------------------------------------ two callers of Wait()
\* The scheduler switches between two goroutines that call Wait() on the
\* same watcher: pc, s, fl and ret are those of the running one, `other`
\* holds those of the one not running.  A goroutine blocked in
\* p.mu.Lock() stays blocked, since every step that takes the mutex
\* requires it to be free.
Switch ==
    /\ other' = [pc |-> pc, s |-> s, fl |-> fl, ret |-> ret]
    /\ pc' = other.pc
    /\ s' = other.s
    /\ fl' = other.fl
    /\ ret' = other.ret
    /\ UNCHANGED <<fsVars, handles, faults, watcherVars, mu, closeRets,
                   delivered, hist, text, lr, po, sk>>

\* two goroutines call Wait(), the environment writes and rotates
NextTwo ==
    \/ NextOpen
    \/ Switch

\* a watcher that reads from the start, without I/O failures
InitTwo ==
    /\ Init
    /\ Whence = SeekStart
    /\ StartState.nil

\* two goroutines calling Wait() on one watcher
SpecTwo == InitTwo /\ [][NextTwo]_vars

\* ================================================================ claims
\* the elements of a sequence
Range(q) == {q[k] : k \in 1..Len(q)}

\* the last Wait() returned a status without error and without `closed`
Returned == ret.kind = "ret" /\ ~ret.closed /\ ret.err = ErrNil

\* the open file has bytes beyond the handle's offset
Undrained(h) == h # 0 /\ handles[h].open /\ files[handles[h].ino] > handles[h].off

\* the bytes were read in the order they were written, each at most once:
\* files in the order they were created at the path, offsets ascending
InOrder(q) ==
    \A a, b \in 1..Len(q) :
        a < b => \/ q[a][1] < q[b][1]
                 \/ (q[a][1] = q[b][1] /\ q[a][2] < q[b][2])

\* C1 (byte continuity across rotation), as claimed: the consumer receives
\* the bytes in the order written with none duplicated, and once the
\* watcher tracks a file that has been renamed aside and a replacement with
\* content is at the path, the consumer eventually receives the
\* replacement's first byte (unless the watcher is closed or the
\* replacement is itself renamed aside first).
ByteContinuity ==
    /\ [] InOrder(delivered)
    /\ \A j \in Inodes :
         (f # 0 /\ pathIno = j /\ handles[f].ino # j /\ files[j] > 0)
            ~> (closed \/ pathIno # j \/ <<j, 0>> \in Range(delivered))

\* C2 (late-bytes safety): while the file the watcher has open holds bytes
\* beyond the handle's offset, no step taken during a Wait() closes that
\* file or replaces it as the tracked handle, and a status returned then is
\* for the old handle with ReOpened = false; bytes that land in the renamed
\* file while a replacement already exists are thus offered on the old
\* handle before anything of the replacement is.
LateBytesSafety ==
    [][ (mu = "wait" /\ Undrained(f))
          => /\ f' = f
             /\ handles'[f].open
             /\ (pc' = "idle" /\ ret'.err = ErrNil
                   => ~ret'.s.ReOpened /\ ret'.s.File = f) ]_vars

\* C2 witness: a replacement is at the path, and Wait() has returned the
\* renamed file's handle, ReOpened = false, with unread bytes
LateBytesReturned ==
    /\ Returned
    /\ ~ret.s.ReOpened
    /\ ret.s.File = f
    /\ f # 0
    /\ pathIno # 0
    /\ handles[f].ino # pathIno
    /\ ret.s.State.Size > ret.s.State.Position
    /\ delivered # <<>>

\* C3 (rotation adoption), as claimed: when the path stat of a Tracking
\* watcher finds another inode and the open file is drained, the call does
\* not return for that poll; it closes the old handle, clears it and goes
\* on to open the replacement.
RotationAdoption ==
    [][ (pc = "pathstat" /\ pathIno # 0 /\ pathIno # s.State.Inode
           /\ ~Undrained(f))
          => \/ pc' = "pathstat"
             \/ (pc' = "sleep" /\ f' = 0 /\ ~handles'[f].open) ]_vars

\* C4 (Wait blocks until there is something to report), as claimed: every
\* return of Wait() with closed = false and err = nil has ReOpened = true or
\* State.Size > State.Position.
WaitReportsSomething ==
    Returned => (ret.s.ReOpened \/ ret.s.State.Size > ret.s.State.Position)

\* C5 (idempotent close), as claimed: the second and every later call of
\* Close() returns no error.
CloseIdempotent ==
    \A k \in 2..Len(closeRets) : closeRets[k] = ErrNil

\* C6 (closed is terminal): a Wait() called after Close() has returned
\* returns closed = true and err = nil, has sat out no poll interval and has
\* not opened, stat-ed, sought or closed any file.
ClosedIsTerminal ==
    (ret.kind = "ret" /\ hist.calledClosed)
        => /\ ret.closed
           /\ ret.err = ErrNil
           /\ ~hist.touched
           /\ ~hist.waited

\* C6 witness: such a call has returned, for a watcher that was closed
\* while Tracking
WaitAfterCloseTracking ==
    /\ ret.kind = "ret"
    /\ hist.calledClosed
    /\ ret.closed
    /\ f # 0

\* C7 (cancellation liveness): a Wait() in progress when the watcher is
\* closed eventually returns closed = true and err = nil, whether it polls
\* for a path that is absent or for an open file that does not grow; and
\* the mutex Close() needs is always released again by a running Wait().
CancellationLiveness ==
    /\ (closed /\ pc # "idle")
          ~> (pc = "idle" /\ ret.kind = "ret" /\ ret.closed /\ ret.err = ErrNil)
    /\ (mu = "wait") ~> (mu = "free")

\* C7 witness: a Wait() that was called before Close() has returned
\* closed = true, err = nil
CancelledInFlight ==
    /\ ret.kind = "ret"
    /\ ret.closed
    /\ ret.err = ErrNil
    /\ ~hist.calledClosed
    /\ closeRets # <<>>

\* C8 (not-found at startup is never surfaced): an open that finds the path
\* absent returns nothing and leaves the watcher Unopened and polling; no
\* Wait() returns a not-found error; the ReOpened status returned after such
\* polls carries an open handle on the file opened, positioned within it
\* (at 0 when no start_state was supplied); and once
\* a file is at the path of an Unopened watcher, Wait() eventually returns
\* (ReOpened = true, closed = false, err = nil), unless the watcher is
\* closed or the file is renamed aside first.
NotFoundNeverSurfaced ==
    /\ [][ (pc = "open" /\ pathIno = 0)
             => (pc' \in {"open", "sleep"} /\ ret' = ret /\ f' = 0) ]_vars
    /\ [] (ret.kind = "ret" => ret.err # ErrNotExist)
    /\ [] ((Returned /\ ret.s.ReOpened /\ hist.sawNotFound)
             => /\ ret.s.State.Inode = handles[ret.s.File].ino
                /\ closed \/ handles[ret.s.File].open
                /\ ret.s.State.Position <= ret.s.State.Size
                /\ (hist.start0.nil /\ ret.s.File = 1)
                      => ret.s.State.Position = 0)
    /\ (pc # "idle" /\ f = 0 /\ pathIno # 0)
          ~> (closed \/ pathIno = 0 \/ (Returned /\ ret.s.ReOpened))

\* C8 witness: the path was absent at an open, the file appeared with
\* content, and Wait() returned it ReOpened at position 0
OpenedAfterNotFound ==
    /\ hist.sawNotFound
    /\ Returned
    /\ ret.s.ReOpened
    /\ ret.s.File = 1
    /\ ret.s.State.Position = 0
    /\ ret.s.State.Size > 0
    /\ handles[1].open

\* C9 (whence is one-shot), with no start_state: the first file opened is
\* positioned at its end for whence = end and at 0 otherwise, provided no
\* open found the path absent before; if one did, the file is positioned at
\* 0; every file opened later is positioned at 0; a ReOpened status reports
\* the position the open left the handle at.
WhenceOneShot ==
    [][ /\ (pc = "open" /\ pc' = "newstate" /\ hist.start0.nil)
            => handles'[fl'].off =
                 IF fl' = 1 /\ ~hist.sawNotFound /\ hist.whence0 = SeekEnd
                    THEN files[pathIno] ELSE 0
        /\ (pc = "newstate" /\ pc' = "idle" /\ ret'.err = ErrNil)
            => /\ ret'.s.ReOpened
               /\ ret'.s.File = fl
               /\ ret'.s.State.Position = handles[fl].off ]_vars

\* C9 witness: whence = end, no start_state, and the first file opened was
\* returned positioned at its end, past bytes already written
OpenedAtEnd ==
    /\ hist.start0.nil
    /\ hist.whence0 = SeekEnd
    /\ Returned
    /\ ret.s.ReOpened
    /\ ret.s.File = 1
    /\ ret.s.State.Position = MaxSize

\* the start_state matches the file at the path: same inode, size >= position
StartMatches ==
    /\ ~hist.start0.nil
    /\ pathIno = hist.start0.Inode
    /\ files[pathIno] >= hist.start0.Position

StartDeclined ==
    /\ ~hist.start0.nil
    /\ pathIno # 0
    /\ \/ pathIno # hist.start0.Inode
       \/ files[pathIno] < hist.start0.Position

\* C11 (no inode-reuse confusion), as claimed: when the start_state does
\* not match the first file opened, the handle is positioned as with no
\* start_state: at the end of the file for whence = end (the file having
\* been at the path at the first open attempt), at offset 0 otherwise.
DeclinedResumeStartsPerWhence ==
    [][ (pc = "open" /\ pc' = "newstate" /\ fl' = 1 /\ StartDeclined)
          => handles'[1].off =
               IF ~hist.sawNotFound /\ hist.whence0 = SeekEnd
                  THEN files[pathIno] ELSE 0 ]_vars

\* C12 (position invariant): every handle the watcher opened has an offset
\* between 0 and the size of its file, after the watcher's seeks and the
\* consumer's reads, and every FileState returned by Wait() has
\* 0 <= Position <= Size.
PositionInvariant ==
    /\ \A k \in 1..Len(handles) :
         /\ 0 <= handles[k].off
         /\ handles[k].off <= files[handles[k].ino]
    /\ ret.kind = "ret"
         => /\ 0 <= ret.s.State.Position
            /\ ret.s.State.Position <= ret.s.State.Size

\* C12 witness: a start_state whose position lies beyond the size of the
\* file with its inode was supplied, and Wait() returned that file
DeclinedBeyondSize ==
    /\ ~hist.start0.nil
    /\ Returned
    /\ ret.s.ReOpened
    /\ ret.s.State.Inode = hist.start0.Inode
    /\ ret.s.State.Size > 0
    /\ ret.s.State.Size < hist.start0.Position

\* C13 (single owned handle), as claimed: whenever no Wait() holds the
\* mutex, the only handle opened and not closed is the tracked one.
SingleOwnedHandle ==
    mu = "free"
       => \A k \in 1..Len(handles) : handles[k].open => k = f

\* Next() returns true in this step
NextReturnsTrue == lr.pc = "read" /\ lr'.pc = "idle" /\ lr'.ret = "true"

\* the offset in its file of the first byte the LineReader has not taken
\* from its bufio.Reader
LinePos(l, hs) == hs[l.br].off - l.buf

\* C14 (line boundaries): the record a Next() returns is the run of bytes
\* from the end of the previous record (or from where reading of the file
\* began) up to the first '\n' after it, without that '\n' and without a
\* '\r' right before it; nothing else is added, dropped or altered, and a
\* lone '\n' gives the empty record.
LineBoundaries ==
    [][ NextReturnsTrue
          => LET end == LinePos(lr', handles')
                 seg == SubText(lr.lineStart, end)
                 n   == Len(seg)
             IN  /\ n >= 1
                 /\ seg[n] = LF
                 /\ \A k \in 1..(n - 1) : seg[k] # LF
                 /\ lr'.lastBytes =
                      IF n >= 2 /\ seg[n - 1] = CR
                         THEN [k \in 1..(n - 2) |-> seg[k]]
                         ELSE [k \in 1..(n - 1) |-> seg[k]] ]_vars

\* C14 witness: the file began with "\r\n" and Next() returned the empty
\* record for it
EmptyRecordForCRLF ==
    /\ lr.ret = "true"
    /\ text[1] = CR
    /\ text[2] = LF
    /\ lr.lineStart = 2
    /\ lr.lastBytes = <<>>
    /\ lr.s.State.Position = 2

\* C15 (position accounting), as claimed: whenever Next() has returned
\* true, FileState().Position is the offset, in the file being read, of the
\* start of the next line.
PositionAccounting ==
    lr.ret = "true" => lr.s.State.Position = LinePos(lr, handles)

\* the new LineReader's Wait() returns a file just opened
ReOpenedStep == lr.pc = "wait" /\ lr'.pc = "top" /\ lr'.br # lr.br

\* C16 (checkpoint round-trip), as claimed: a LineReader constructed with
\* StartState = FileState() of a reader stopped after a record, the file
\* being still at the path, starts reading at the offset where the stopped
\* reader's next record begins, so that its first record is that record
\* and none is skipped or repeated.
CheckpointRoundTrip ==
    [][ /\ (lr.restarted /\ ReOpenedStep
              /\ handles[lr'.br].ino = lr.expect.ino)
            => handles[lr'.br].off = lr.expect.off
        /\ (lr.restarted /\ NextReturnsTrue
              /\ handles[lr.br].ino = lr.expect.ino)
            => lr.lineStart >= lr.expect.off ]_vars

\* ReadBytes has returned in this step
ReadStep == lr.pc = "read" /\ lr'.pc # "read"

\* C17 (stop at EOF): with StopAtEOF, the first end of file, which comes
\* only when no complete line is left in the file, is not handed to the
\* handler and leads to no Wait(); it becomes Err(), the Next() in progress
\* returns false, and from then on Err() stays io.EOF and no Next() reads,
\* waits or returns true.
StopAtEOF ==
    [][ /\ (lr.StopAtEOF /\ ReadStep /\ lr'.lastErr = ErrEOF)
            => /\ lr'.err = ErrEOF
               /\ lr'.handled = ErrNil
               /\ lr'.pc = "top"
               /\ LET seg == SubText(lr.lineStart, files[handles[lr.br].ino])
                  IN  \A k \in 1..Len(seg) : seg[k] # LF
        /\ (lr.err = ErrEOF /\ lr.pc = "top" /\ lr' # lr)
            => lr'.pc = "idle" /\ lr'.ret = "false"
        /\ lr.err = ErrEOF
            => lr'.err = ErrEOF /\ lr'.pc \notin {"read", "wait"}
                                /\ lr'.ret # "true" ]_vars

\* C17 witness: a StopAtEOF reader that delivered the record ending at
\* offset 1 and then returned false with Err() = io.EOF
StoppedAtEOF ==
    /\ lr.StopAtEOF
    /\ text[1] = LF
    /\ lr.lineStart = 1
    /\ lr.err = ErrEOF
    /\ lr.pc = "idle"
    /\ lr.ret = "false"

\* C18 (error-handler contract): a read error other than io.EOF and an
\* error returned by Wait() are handed to the handler in the step that got
\* them, and nothing else is; the handler never gets io.EOF or a not-found
\* error; Err() becomes non-nil only by the handler's return (or io.EOF
\* under StopAtEOF), never with the discarding handler; once Err() is
\* non-nil it stays, Next() returns false and nothing more is read.
ErrorHandlerContract ==
    [][ /\ ReadStep
            => lr'.handled = IF lr'.lastErr \in {ErrNil, ErrEOF}
                                THEN ErrNil ELSE lr'.lastErr
        /\ (lr.pc = "wait" /\ lr'.pc # "wait")
            => lr'.handled = IF ret.closed THEN ErrNil ELSE ret.err
        /\ lr'.handled \notin {ErrEOF, ErrNotExist}
        /\ (lr.err = ErrNil /\ lr'.err # ErrNil)
            => \/ lr'.err = ErrHandler /\ lr'.handled # ErrNil
                                       /\ lr.onErr = "user"
               \/ lr'.err = ErrEOF /\ lr.StopAtEOF
        /\ ((ReadStep \/ (lr.pc = "wait" /\ lr'.pc # "wait"))
              /\ lr'.handled # ErrNil /\ lr'.err = ErrNil)
            => lr'.pc = "top"
        /\ (lr.err # ErrNil /\ lr.pc = "top" /\ lr' # lr)
            => lr'.pc = "idle" /\ lr'.ret = "false"
        /\ lr.err # ErrNil
            => lr'.err = lr.err /\ lr'.pc \notin {"read", "wait"}
                                /\ lr'.ret # "true" ]_vars

\* C18 witness: the handler was given an I/O error, returned an error, and
\* Next() returned false with that error as Err()
HandlerStopped ==
    /\ lr.onErr = "user"
    /\ lr.handled = ErrIO
    /\ lr.err = ErrHandler
    /\ lr.pc = "idle"
    /\ lr.ret = "false"

\* the reader has delivered every record of file 1, which was then renamed
\* aside, and the file now at the path holds a complete line
RotatedAfterDelivery ==
    /\ ~lr.StopAtEOF
    /\ lr.err = ErrNil
    /\ lr.br # 0
    /\ handles[lr.br].ino = 1
    /\ \A k \in (LinePos(lr, handles) + 1)..files[1] : text[k] # LF
    /\ pathIno = 2
    /\ \E k \in 1..files[2] : text[k] = LF

\* C19 (line reading across rotation), as claimed: once every record of the
\* open file is delivered and a replacement holding a complete line is at
\* the path, Next() eventually returns true with a record of the
\* replacement, FileState() naming the replacement with a Position inside
\* it (unless the replacement is itself renamed aside first).
LineReadingAcrossRotation ==
    RotatedAfterDelivery
        ~> \/ /\ lr.ret = "true"
              /\ handles[lr.br].ino = 2
              /\ lr.s.State.Inode = 2
              /\ lr.s.State.Position = LinePos(lr, handles)
           \/ pathIno # 2

\* the Poller read from file 1 and has switched to its replacement, file 2
SwitchedToReplacement ==
    /\ po.f # 0
    /\ handles[po.f].ino = 2
    /\ \E k \in 1..Len(handles) : handles[k].ino = 1
    /\ po.bytesRead > handles[po.f].off

\* C20 (the Poller tails across rotation), as claimed: once the Poller has
\* switched to the replacement, every byte appended to the replacement is
\* eventually returned by Read, whatever was read from the earlier file.
PollerTailsAcrossRotation ==
    \A k \in 0..(MaxSize - 1) :
        (SwitchedToReplacement /\ files[2] > k)
            ~> (<<2, k>> \in Range(delivered))

\* a handle the Poller opened is still open
PollerHandleOpen == \E k \in 1..Len(handles) : handles[k].open

\* C21 (Poller.Close during Read), as claimed: a Read() that begins after
\* Close() finds the Poller closed and returns (0, os.ErrClosed) without
\* touching a file, a Read() running when Close() is called returns no
\* bytes after it, and once Close() has been called and no Read() is
\* running no handle the Poller opened is open.
PollerCloseSafe ==
    [][ /\ (po.closed /\ po.pc = "idle" /\ po'.pc # "idle")
            => po'.lclosed
        /\ (po.pc = "loop" /\ po.lclosed /\ po'.pc # "loop")
            => po'.pc = "idle" /\ po'.ret = [n |-> 0, err |-> ErrClosed]
        /\ (po.closed /\ po.pc # "idle" /\ po'.pc = "idle")
            => po'.ret.n = 0 /\ po'.ret.err # ErrNil
        /\ (po'.closed /\ po'.pc = "idle") => ~PollerHandleOpen' ]_vars

\* a call of Wait() returns a status without error and without `closed`
WaitSucceeds ==
    /\ pc # "idle"
    /\ pc' = "idle"
    /\ ret'.kind = "ret"
    /\ ~ret'.closed
    /\ ret'.err = ErrNil

\* C22 (ReOpened marks the first status of a handle): a successful Wait()
\* returns ReOpened = true exactly when it opened the returned handle in
\* that call, which then becomes the tracked one; otherwise it returns
\* the handle that was tracked before the call, which stays tracked.
ReOpenedMarksFirstStatus ==
    [][ WaitSucceeds
          => /\ ret'.s.ReOpened <=> (fl # 0 /\ ret'.s.File = fl)
             /\ ret'.s.ReOpened => (f = 0 /\ f' = ret'.s.File)
             /\ ~ret'.s.ReOpened => (f # 0 /\ f' = f /\ ret'.s.File = f)
             /\ handles[ret'.s.File].open ]_vars

\* C22 witness: a later status of a handle that was returned before, with
\* ReOpened = false
LaterStatusSameHandle ==
    /\ Returned
    /\ ~ret.s.ReOpened
    /\ ret.s.File = f
    /\ f # 0
    /\ delivered # <<>>

\* the path stat of a drained tracked file finds the path absent or naming
\* the tracked file itself, no I/O failure occurring
NoReplacementSeen ==
    /\ pc = "pathstat"
    /\ pc' # "pathstat"
    /\ faults' = faults
    /\ pathIno = 0 \/ pathIno = handles[f].ino

\* C23 (no rotation without a replacement): when the path is absent or
\* still names the tracked file, Wait() does not return, reports nothing
\* and keeps the handle open and tracked, polling again; bytes that appear
\* in the tracked file are returned on that handle with ReOpened = false.
NoRotationWithoutReplacement ==
    [][ /\ NoReplacementSeen
            => /\ pc' = "sleep"
               /\ ret' = ret
               /\ ret.kind = "none"
               /\ f' = f
               /\ handles' = handles
               /\ handles[f].open
        /\ (pc = "fstat" /\ WaitSucceeds)
            => /\ ~ret'.s.ReOpened
               /\ ret'.s.File = f
               /\ f' = f
               /\ HasData(ret'.s.State) ]_vars

\* C23 witness: the tracked file was found drained and the path absent,
\* Wait() went on polling with the handle open, and bytes have since been
\* appended to the renamed file
PollingRenamedFile ==
    /\ pc = "sleep"
    /\ f # 0
    /\ s.File = f
    /\ pathIno = 0
    /\ Undrained(f)

\* a call of Wait() returns an error
WaitFails ==
    /\ pc # "idle"
    /\ pc' = "idle"
    /\ ret'.kind = "ret"
    /\ ret'.err # ErrNil

\* C24 (errors leave the watcher retryable), as claimed: when Wait()
\* returns an error while no file is tracked, no file is tracked
\* afterwards and the first-open policy is still pending (StartState as
\* configured; Whence as configured unless a not-found open has reset it);
\* when it returns an error while tracking, the same handle is still
\* tracked and open.
ErrorsLeaveStateUnchanged ==
    [][ WaitFails
          => /\ f' = f
             /\ f = 0 => /\ StartState' = hist.start0
                         /\ Whence' = hist.whence0 \/ hist.sawNotFound
             /\ f # 0 => handles' = handles /\ handles[f].open ]_vars

\* Next() gets an error from Wait()
WaitErrorSeen ==
    /\ lr.pc = "wait"
    /\ lr'.pc # "wait"
    /\ ret.kind = "ret"
    /\ ~ret.closed
    /\ ret.err # ErrNil

\* C25 (the LineReader retains its state across a watcher error), as
\* claimed: when Wait() returns an error the retained WaitStatus is not
\* replaced, so FileState() is the same after the error as before it.
StateRetainedAcrossWaitError ==
    [][ WaitErrorSeen => lr'.s.State = lr.s.State ]_vars

WaitCallsSerialized ==
    ~(pc # "idle" /\ other.pc # "idle")

\* the goroutine in Wait() is between `p.mu.Lock()` after the select and
\* its return
InFileSection == pc \in {"open", "newstate", "fstat", "pathstat"}

\* C28 (Close() and Wait() exclude each other on the handle), as claimed:
\* Close() runs only while no Wait() is in its file-system section; that
\* section runs only on a watcher not yet closed whose tracked handle is
\* open; a handle Wait() returns is open when it is returned; and once
\* Close() has been called and no Wait() is running no handle is open.
CloseWaitExclusion ==
    [][ /\ Len(closeRets') > Len(closeRets) => ~InFileSection
        /\ InFileSection' => ~closed' /\ (f' # 0 => handles'[f'].open)
        /\ WaitSucceeds => handles'[ret'.s.File].open
        /\ (closed' /\ pc' = "idle")
            => \A k \in 1..Len(handles') : ~handles'[k].open ]_vars

\* C29 (LineReader.Close() stops Next() cleanly), as claimed: once Close()
\* has been called the error handler is not invoked because of it (it is
\* never handed the error of a read of the closed file) and Err() does not
\* become an error returned by the handler.
CloseStopsNextCleanly ==
    [][ lr.stop
          => /\ lr'.handled # ErrClosed
             /\ lr.err = ErrNil => lr'.err # ErrHandler ]_vars

\* C30 (checkpoint never counts undelivered bytes), as claimed: whenever
\* Next() has returned, true or false, FileState().Position is the offset
\* just past the delimiter of the last record delivered from the current
\* file (the offset the file was opened at when none was delivered yet).
CheckpointCountsDeliveredOnly ==
    (lr.pc = "idle" /\ lr.ret \in {"true", "false"} /\ lr.br # 0)
        => lr.s.State.Position = lr.lineStart

\* C31 (records are only produced on a delimiter): when Next() returns true
\* the bytes it had kept from earlier reads of this call, followed by the
\* bytes of the last read, end with '\n' and are all the bytes of the file
\* from the end of the previous record on; the record is these bytes less
\* one or two trailing bytes, each of them a delimiter ("\n" or "\r\n").
RecordsOnlyOnDelimiter ==
    [][ NextReturnsTrue
          => LET acc == lr.lastBytes
                          \o SubText(LinePos(lr, handles), LinePos(lr', handles'))
                 n   == Len(acc)
                 m   == Len(lr'.lastBytes)
             IN  /\ n >= 1
                 /\ acc[n] = LF
                 /\ acc = SubText(lr.lineStart, LinePos(lr', handles'))
                 /\ n - m \in {1, 2}
                 /\ lr'.lastBytes = SubSeq(acc, 1, m)
                 /\ n - m = 2 => acc[n - 1] = CR ]_vars

\* C31 witness: Next() read a byte of a line at end of file, kept it
\* through a Wait(), read the rest of the line and returned the two parts
\* as one record
FragmentJoined ==
    /\ lr.ret = "true"
    /\ lr.joined
    /\ ~lr.s.ReOpened
    /\ Len(lr.lastBytes) >= 1
    /\ lr.lineStart = Len(lr.lastBytes) + 1

====
